---------------------------- MODULE Spec2Model ----------------------------
(***************************************************************************)
(* The MedicalRecord access registry (the second, time-bounded contract of *)
(* packages/contracts/contracts/MedicalRecord.sol) as a state machine.     *)
(*                                                                         *)
(* One action per external function of the contract.  A transaction is     *)
(* atomic: a call that reverts leaves the storage as it was, and only the  *)
(* revert reason is observed.  The variable `last' records the call that   *)
(* produced the current state (function, msg.sender, arguments, revert     *)
(* reason or "" on success, return value), so that post-conditions of a    *)
(* call are invariants over (last, storage).  View functions are           *)
(* operators over the storage.  A reverted transaction is no part of the   *)
(* chain's state: it is observed in a state of its own (last.err is the    *)
(* revert reason, the storage is untouched), from which the chain resumes. *)
(*                                                                         *)
(* A specification explores one scope: the accounts that send              *)
(* transactions, the addresses passed as _patient, and the block           *)
(* timestamps the clock visits.  The scope is fixed by the initial state.  *)
(*                                                                         *)
(* Machine words: TLC integers are 32 bits wide, so the model's unsigned   *)
(* word is narrowed to 31 bits (MaxUint); Solidity 0.8 checked arithmetic  *)
(* is kept: an addition or multiplication whose result does not fit the    *)
(* word reverts the call with Panic(0x11).                                 *)
(***************************************************************************)
EXTENDS Integers, Sequences, FiniteSets, TLC

VARIABLES
    now,             \* block.timestamp
    accessRequests,  \* mapping(address => AccessRequest[])
    accessExpiry,    \* mapping(address => mapping(address => uint256))
    patientRecords,  \* mapping(address => Record[])
    events,          \* the event log: the events emitted so far, oldest first
    inForce,         \* history: per (patient, requester), the id of the approval
                     \* that set the live grant as it is: {id}, or {} once the
                     \* grant was revoked or extended (or was never approved)
    last,            \* history: the call (or clock step) that led to this state
    scope            \* the scope explored: senders, patients, instants

vars ==
    <<now, accessRequests, accessExpiry, patientRecords, events, inForce, last,
      scope>>

storage == <<accessRequests, accessExpiry, patientRecords>>

---------------------------------------------------------------------------
(* Bounds of the model *)

\* requests stored over all patients, in the scope that explores requests
MaxRequests == 2
\* records stored over all patients, in the scope that explores records
MaxRecords == 2

---------------------------------------------------------------------------
(* Program constants *)

\* address(0)
ZeroAddress == 0
\* "1 hours" in seconds
HOUR == 3600
\* the longest duration a request may ask for, in hours
MaxDurationHours == 8760
\* the horizon of extendAccess, in hours
MaxHorizonHours == 8760
\* type(uint256).max, narrowed to the 31-bit word of the model
MaxUint == 2147483647

\* the accounts (msg.sender is never address(0))
Users == {1, 2, 3}
Address == {ZeroAddress} \cup Users

YEAR == MaxHorizonHours * HOUR

\* The block timestamps the clock visits.  Around one hour: a start, one hour
\* later (the expiry instant of a one-hour grant approved at the start) and
\* one second past it.  Around one year: the same one year later.
StartTime == 1000
HourInstants == {StartTime, StartTime + HOUR, StartTime + HOUR + 1}
YearInstants == {StartTime, StartTime + YEAR, StartTime + YEAR + 1}

\* Account 1 as the patient and account 2 as the other party, around one
\* hour, with two requests and no record.
PairScope ==
    [senders |-> {1, 2}, patients |-> {ZeroAddress, 1},
     instants |-> HourInstants,
     maxRequests |-> MaxRequests, maxRecords |-> 0]

\* The same accounts around one year, with one request.
YearScope ==
    [senders |-> {1, 2}, patients |-> {ZeroAddress, 1},
     instants |-> YearInstants,
     maxRequests |-> 1, maxRecords |-> 0]

\* The same accounts around one hour, with one request and records.
RecordScope ==
    [senders |-> {1, 2}, patients |-> {ZeroAddress, 1},
     instants |-> HourInstants,
     maxRequests |-> 1, maxRecords |-> MaxRecords]

\* Accounts 1 and 2 both as patient and as the other party of each other,
\* with two requests and no record, at one instant.
CrossScope ==
    [senders |-> {1, 2}, patients |-> {1, 2},
     instants |-> {StartTime},
     maxRequests |-> MaxRequests, maxRecords |-> 0]

\* Accounts 1 and 2 both as patient, with one request and records, at one
\* instant.
WardScope ==
    [senders |-> {1, 2}, patients |-> {1, 2},
     instants |-> {StartTime},
     maxRequests |-> 1, maxRecords |-> MaxRecords]

\* Account 1 as the patient and accounts 2 and 3 as the other parties, with
\* two requests and no record, at one instant.
TrioScope ==
    [senders |-> {1, 2, 3}, patients |-> {1},
     instants |-> {StartTime},
     maxRequests |-> MaxRequests, maxRecords |-> 0]

Scopes ==
    {PairScope, YearScope, RecordScope, CrossScope, WardScope, TrioScope}

\* arguments the calls are tried with
Durations == {0, 1, MaxDurationHours, MaxDurationHours + 1, MaxUint}
\* MaxUint \div HOUR: the product with HOUR fits the word, the sum with a
\* timestamp does not; MaxUint: the product does not fit
ExtendHours ==
    {0, MaxHorizonHours - 1, MaxHorizonHours, MaxUint \div HOUR, MaxUint}
IpfsHashes == {"QmHash"}
FileNames == {"X-Ray Chest"}

---------------------------------------------------------------------------
(* enum RequestStatus *)
Pending == "Pending"
Approved == "Approved"
Rejected == "Rejected"

(* Revert reasons, as the require statements give them *)
NoError == ""
InvalidPatient == "Invalid patient"
DurationZero == "Duration must be > 0"
DurationTooLong == "Max duration is 1 year (8760 hours)"
SelfRequest == "Cannot request access to own records"
OnlyPatient == "Only patient"
InvalidRequestId == "Invalid request ID"
InvalidRequest == "Invalid request"
AlreadyResolved == "Already resolved"
InvalidRequester == "Invalid requester"
NoActiveGrant == "No access to revoke"
HoursZero == "Additional hours must be > 0"
NoExistingGrant == "No existing access to extend"
ExceedsMaxHorizon == "Cannot extend beyond 1 year"
Unauthorized == "Not authorized"
\* checked arithmetic: the result does not fit the word
Panic == "Panic(0x11)"

InvalidDuration == {DurationZero, DurationTooLong}

NoApproval == {}

---------------------------------------------------------------------------
(* Checked arithmetic of Solidity 0.8 *)

AddOverflows(a, b) == a > MaxUint - b
MulOverflows(a, b) == b # 0 /\ a > MaxUint \div b

---------------------------------------------------------------------------
(* View functions *)

hasAccess_strictExpiry(_patient, _requester) ==
    IF _requester = _patient THEN TRUE
    ELSE LET expiry == accessExpiry[_patient][_requester]
         IN  expiry > 0 /\ now < expiry

hasAccess_ignoresExpiry(_patient, _requester) ==
    IF _requester = _patient THEN TRUE
    ELSE accessExpiry[_patient][_requester] > 0

hasAccess(_patient, _requester) ==
    IF _requester = _patient THEN TRUE
    ELSE LET expiry == accessExpiry[_patient][_requester]
         IN  expiry > 0 /\ now <= expiry

getAccessExpiry_zeroOnceExpired(_patient, _requester) ==
    IF _requester = _patient THEN MaxUint
    ELSE IF now > accessExpiry[_patient][_requester] THEN 0
    ELSE accessExpiry[_patient][_requester]

getAccessExpiry(_patient, _requester) ==
    IF _requester = _patient THEN MaxUint
    ELSE accessExpiry[_patient][_requester]

getRemainingAccess_noExpiryCheck(_patient, _requester) ==
    IF _requester = _patient THEN MaxUint
    ELSE LET expiry == accessExpiry[_patient][_requester]
         IN  IF expiry = 0 THEN 0 ELSE expiry - now

getRemainingAccess(_patient, _requester) ==
    IF _requester = _patient THEN MaxUint
    ELSE LET expiry == accessExpiry[_patient][_requester]
         IN  IF expiry = 0 \/ now > expiry THEN 0 ELSE expiry - now

\* a view's outcome: the revert reason, or "" and the value returned
Reverted(reason) == [err |-> reason, val |-> <<>>]
Returned(value) == [err |-> NoError, val |-> value]

getRequests(sender, _patient) ==
    IF sender # _patient THEN Reverted(OnlyPatient)
    ELSE Returned(accessRequests[_patient])

getRecords_ownUploads(sender, _patient) ==
    IF ~hasAccess(_patient, sender) THEN Reverted(Unauthorized)
    ELSE Returned(SelectSeq(patientRecords[_patient],
                            LAMBDA record : record.doctor = sender))

getRecords(sender, _patient) ==
    IF ~hasAccess(_patient, sender) THEN Reverted(Unauthorized)
    ELSE Returned(patientRecords[_patient])

---------------------------------------------------------------------------
(* getActiveAccessors *)

IsActive_beforeExpiryOnly(expiry) == ~(expiry = 0 \/ now >= expiry)

\* the negation of: expiry == 0 || block.timestamp > expiry
IsActive(expiry) == ~(expiry = 0 \/ now > expiry)

Found_never(temp, req) == FALSE

\* the inner loop: req is among the requesters recorded so far
Found(temp, req) == \E j \in 1..Len(temp) : temp[j] = req

\* The outer loop from position i down to 1 of the patient's requests, with
\* the requesters and expiries recorded so far (temp and tempExp up to
\* count); the result is the pair of arrays copied to their size.
RECURSIVE ScanRequests(_, _, _, _)
ScanRequests(_patient, i, temp, tempExp) ==
    IF ~(i > 0) THEN <<temp, tempExp>>
    ELSE LET req == accessRequests[_patient][i].requester
             expiry == accessExpiry[_patient][req]
         IN  IF ~IsActive(expiry)
             THEN ScanRequests(_patient, i - 1, temp, tempExp)
             ELSE IF Found(temp, req)
             THEN ScanRequests(_patient, i - 1, temp, tempExp)
             ELSE ScanRequests(_patient, i - 1,
                               Append(temp, req), Append(tempExp, expiry))

Reverse(s) == [k \in 1..Len(s) |-> s[Len(s) + 1 - k]]

getActiveAccessors_oldestFirst(sender, _patient) ==
    IF sender # _patient THEN Reverted(OnlyPatient)
    ELSE LET found == ScanRequests(_patient, Len(accessRequests[_patient]),
                                   <<>>, <<>>)
         IN  Returned(<<Reverse(found[1]), Reverse(found[2])>>)

getActiveAccessors_grantees(sender, _patient) ==
    IF ~hasAccess(_patient, sender) THEN Reverted(OnlyPatient)
    ELSE Returned(ScanRequests(_patient, Len(accessRequests[_patient]),
                               <<>>, <<>>))

getActiveAccessors(sender, _patient) ==
    IF sender # _patient THEN Reverted(OnlyPatient)
    ELSE LET len == Len(accessRequests[_patient]) IN
         IF len = 0 THEN Returned(<<<<>>, <<>>>>)
         ELSE Returned(ScanRequests(_patient, len, <<>>, <<>>))

---------------------------------------------------------------------------
(* Events *)

AccessRequested(patient, requester, requestId, durationInHours) ==
    [name |-> "AccessRequested", patient |-> patient, requester |-> requester,
     requestId |-> requestId, durationInHours |-> durationInHours]

AccessRequestResolved(patient, requester, requestId, approved, expiresAt) ==
    [name |-> "AccessRequestResolved", patient |-> patient,
     requester |-> requester, requestId |-> requestId, approved |-> approved,
     expiresAt |-> expiresAt]

AccessRevoked(patient, requester) ==
    [name |-> "AccessRevoked", patient |-> patient, requester |-> requester]

AccessExtended(patient, requester, newExpiresAt) ==
    [name |-> "AccessExtended", patient |-> patient, requester |-> requester,
     newExpiresAt |-> newExpiresAt]

RecordAdded(patient, ipfsHash, doctor) ==
    [name |-> "RecordAdded", patient |-> patient, ipfsHash |-> ipfsHash,
     doctor |-> doctor]

emit_twice(event) == events' = Append(Append(events, event), event)

\* emit: the event is appended to the log when the transaction commits
emit(event) == events' = Append(events, event)

---------------------------------------------------------------------------
(* The record of a call *)

Call(op, sender, patient, requester, requestId, hours, approve, err, ret, prior) ==
    [op |-> op, sender |-> sender, patient |-> patient, requester |-> requester,
     requestId |-> requestId, hours |-> hours, approve |-> approve,
     err |-> err, ret |-> ret, priorExpiry |-> prior]

RECURSIVE SumLen(_, _)
SumLen(f, S) ==
    IF S = {} THEN 0
    ELSE LET a == CHOOSE x \in S : TRUE
         IN  Len(f[a]) + SumLen(f, S \ {a})

TotalRequests == SumLen(accessRequests, Address)
TotalRecords == SumLen(patientRecords, Address)

---------------------------------------------------------------------------
InitIn(sc) ==
    /\ scope = sc
    /\ now = StartTime
    /\ accessRequests = [p \in Address |-> <<>>]
    /\ accessExpiry = [p \in Address |-> [r \in Address |-> 0]]
    /\ patientRecords = [p \in Address |-> <<>>]
    /\ events = <<>>
    /\ inForce = [p \in Address |-> [r \in Address |-> NoApproval]]
    /\ last = Call("deploy", ZeroAddress, ZeroAddress, ZeroAddress, 0, 0, FALSE,
                   NoError, 0, 0)

Init == \E sc \in Scopes : InitIn(sc)

\* The environment's clock: block.timestamp moves to a later instant.
Tick ==
    /\ \E t \in scope.instants :
          /\ t > now
          /\ now' = t
    /\ last' = Call("tick", ZeroAddress, ZeroAddress, ZeroAddress, 0, 0, FALSE,
                    NoError, 0, 0)
    /\ UNCHANGED <<accessRequests, accessExpiry, patientRecords, events, inForce,
                 scope>>

\* The chain goes on from the state a reverted transaction left untouched.
Resume ==
    /\ last.err # NoError
    /\ last' = Call("resume", ZeroAddress, ZeroAddress, ZeroAddress, 0, 0, FALSE,
                    NoError, 0, 0)
    /\ UNCHANGED <<now, accessRequests, accessExpiry, patientRecords, events,
                 inForce, scope>>

---------------------------------------------------------------------------
(* requestAccess *)

requestAccessError_selfFirst(sender, _patient, _durationInHours) ==
    IF _patient = ZeroAddress THEN InvalidPatient
    ELSE IF ~(sender # _patient) THEN SelfRequest
    ELSE IF ~(_durationInHours > 0) THEN DurationZero
    ELSE IF ~(_durationInHours <= MaxDurationHours) THEN DurationTooLong
    ELSE NoError

requestAccessError_exclusiveMax(sender, _patient, _durationInHours) ==
    IF _patient = ZeroAddress THEN InvalidPatient
    ELSE IF ~(_durationInHours > 0) THEN DurationZero
    ELSE IF ~(_durationInHours < MaxDurationHours) THEN DurationTooLong
    ELSE IF ~(sender # _patient) THEN SelfRequest
    ELSE NoError

requestAccessError_allowsSelf(sender, _patient, _durationInHours) ==
    IF _patient = ZeroAddress THEN InvalidPatient
    ELSE IF ~(_durationInHours > 0) THEN DurationZero
    ELSE IF ~(_durationInHours <= MaxDurationHours) THEN DurationTooLong
    ELSE NoError

requestAccessError(sender, _patient, _durationInHours) ==
    IF _patient = ZeroAddress THEN InvalidPatient
    ELSE IF ~(_durationInHours > 0) THEN DurationZero
    ELSE IF ~(_durationInHours <= MaxDurationHours) THEN DurationTooLong
    ELSE IF ~(sender # _patient) THEN SelfRequest
    ELSE NoError

NewRequest_noRequester(sender, _durationInHours) ==
    [requester |-> ZeroAddress,
     timestamp |-> now,
     status |-> Pending,
     durationInHours |-> _durationInHours,
     grantedAt |-> 0,
     expiresAt |-> 0]

NewRequest_grantedAtOnce(sender, _durationInHours) ==
    [requester |-> sender,
     timestamp |-> now,
     status |-> Pending,
     durationInHours |-> _durationInHours,
     grantedAt |-> now,
     expiresAt |-> 0]

NewRequest(sender, _durationInHours) ==
    [requester |-> sender,
     timestamp |-> now,
     status |-> Pending,
     durationInHours |-> _durationInHours,
     grantedAt |-> 0,
     expiresAt |-> 0]

requestAccess(sender, _patient, _durationInHours) ==
    LET err == requestAccessError(sender, _patient, _durationInHours) IN
    IF err # NoError
    THEN /\ last' = Call("requestAccess", sender, _patient, sender, 0,
                         _durationInHours, FALSE, err, 0, 0)
         /\ UNCHANGED <<now, storage, events, inForce, scope>>
    ELSE /\ TotalRequests < scope.maxRequests
         /\ accessRequests' =
                [accessRequests EXCEPT
                    ![_patient] = Append(@, NewRequest(sender, _durationInHours))]
         /\ last' = Call("requestAccess", sender, _patient, sender,
                         Len(accessRequests'[_patient]) - 1,
                         _durationInHours, FALSE, NoError,
                         Len(accessRequests'[_patient]) - 1, 0)
         /\ emit(AccessRequested(_patient, sender,
                                 Len(accessRequests'[_patient]) - 1,
                                 _durationInHours))
         /\ UNCHANGED <<now, accessExpiry, patientRecords, inForce, scope>>

---------------------------------------------------------------------------
(* respondToRequest *)

respondToRequestError_noPendingCheck(sender, _requestId) ==
    IF ~(_requestId < Len(accessRequests[sender])) THEN InvalidRequestId
    ELSE LET request == accessRequests[sender][_requestId + 1] IN
         IF ~(request.requester # ZeroAddress) THEN InvalidRequest
         ELSE NoError

respondToRequestError_rejectedStaysOpen(sender, _requestId) ==
    IF ~(_requestId < Len(accessRequests[sender])) THEN InvalidRequestId
    ELSE LET request == accessRequests[sender][_requestId + 1] IN
         IF ~(request.requester # ZeroAddress) THEN InvalidRequest
         ELSE IF ~(request.status # Approved) THEN AlreadyResolved
         ELSE NoError

respondToRequestError_offByOne(sender, _requestId) ==
    IF ~(_requestId + 1 < Len(accessRequests[sender])) THEN InvalidRequestId
    ELSE LET request == accessRequests[sender][_requestId + 1] IN
         IF ~(request.requester # ZeroAddress) THEN InvalidRequest
         ELSE IF ~(request.status = Pending) THEN AlreadyResolved
         ELSE NoError

respondToRequestError(sender, _requestId) ==
    IF ~(_requestId < Len(accessRequests[sender])) THEN InvalidRequestId
    ELSE LET request == accessRequests[sender][_requestId + 1] IN
         IF ~(request.requester # ZeroAddress) THEN InvalidRequest
         ELSE IF ~(request.status = Pending) THEN AlreadyResolved
         ELSE NoError

ApprovalExpiry_neverExpires(timestamp, durationInHours) == MaxUint

\* block.timestamp + (request.durationInHours * 1 hours)
ApprovalExpiry(timestamp, durationInHours) ==
    timestamp + (durationInHours * HOUR)

ApproveRequest_fromRequestTime(request) ==
    [request EXCEPT
        !.status = Approved,
        !.grantedAt = now,
        !.expiresAt = ApprovalExpiry(request.timestamp, request.durationInHours)]

ApproveRequest(request) ==
    [request EXCEPT
        !.status = Approved,
        !.grantedAt = now,
        !.expiresAt = ApprovalExpiry(now, request.durationInHours)]

RejectRequest_stamped(request) ==
    [request EXCEPT !.status = Rejected, !.grantedAt = now]

RejectRequest(request) ==
    [request EXCEPT !.status = Rejected]

\* the local expiresAt: 0 unless the request is approved
ResolvedExpiry(request, _approve) ==
    IF _approve THEN ApprovalExpiry(now, request.durationInHours) ELSE 0

GrantAfterResponse_clearsOnReject(sender, request, _approve) ==
    [accessExpiry EXCEPT
        ![sender][request.requester] = ResolvedExpiry(request, _approve)]

GrantAfterResponse_alsoOnReject(sender, request, _approve) ==
    [accessExpiry EXCEPT
        ![sender][request.requester] =
            ApprovalExpiry(now, request.durationInHours)]

GrantAfterResponse_keepsLater(sender, request, _approve) ==
    IF _approve
    THEN [accessExpiry EXCEPT
            ![sender][request.requester] =
                IF @ > ResolvedExpiry(request, _approve) THEN @
                ELSE ResolvedExpiry(request, _approve)]
    ELSE accessExpiry

GrantAfterResponse_notSet(sender, request, _approve) == accessExpiry

\* accessExpiry[msg.sender][request.requester] = expiresAt, when approved
GrantAfterResponse(sender, request, _approve) ==
    IF _approve
    THEN [accessExpiry EXCEPT
            ![sender][request.requester] = ResolvedExpiry(request, _approve)]
    ELSE accessExpiry

respondToRequest(sender, _requestId, _approve) ==
    LET err == respondToRequestError(sender, _requestId) IN
    IF err # NoError
    THEN /\ last' = Call("respondToRequest", sender, sender, ZeroAddress,
                         _requestId, 0, _approve, err, 0, 0)
         /\ UNCHANGED <<now, storage, events, inForce, scope>>
    ELSE LET request == accessRequests[sender][_requestId + 1]
             expiresAt == ResolvedExpiry(request, _approve)
         IN  /\ accessRequests' =
                    [accessRequests EXCEPT
                        ![sender][_requestId + 1] =
                            IF _approve THEN ApproveRequest(request)
                            ELSE RejectRequest(request)]
             /\ accessExpiry' = GrantAfterResponse(sender, request, _approve)
             /\ inForce' =
                    IF _approve
                    THEN [inForce EXCEPT ![sender][request.requester] = {_requestId}]
                    ELSE inForce
             /\ last' = Call("respondToRequest", sender, sender, request.requester,
                             _requestId, request.durationInHours, _approve, NoError,
                             expiresAt, accessExpiry[sender][request.requester])
             /\ emit(AccessRequestResolved(sender, request.requester,
                                           _requestId, _approve, expiresAt))
             /\ UNCHANGED <<now, patientRecords, scope>>

---------------------------------------------------------------------------
(* revokeAccess *)

revokeAccessError_noGrantCheck(sender, _requester) ==
    IF ~(_requester # ZeroAddress) THEN InvalidRequester
    ELSE NoError

revokeAccessError(sender, _requester) ==
    IF ~(_requester # ZeroAddress) THEN InvalidRequester
    ELSE IF ~(accessExpiry[sender][_requester] > 0) THEN NoActiveGrant
    ELSE NoError

GrantAfterRevoke_allOfPatient(sender, _requester) ==
    [accessExpiry EXCEPT ![sender] = [r \in Address |-> 0]]

GrantAfterRevoke_expiresNow(sender, _requester) ==
    [accessExpiry EXCEPT ![sender][_requester] = now]

GrantAfterRevoke_ofRequester(sender, _requester) ==
    [accessExpiry EXCEPT ![_requester][sender] = 0]

\* accessExpiry[msg.sender][_requester] = 0
GrantAfterRevoke(sender, _requester) ==
    [accessExpiry EXCEPT ![sender][_requester] = 0]

revokeAccess(sender, _requester) ==
    LET err == revokeAccessError(sender, _requester) IN
    /\ last' = Call("revokeAccess", sender, sender, _requester, 0, 0, FALSE,
                    err, 0, accessExpiry[sender][_requester])
    /\ IF err # NoError
       THEN UNCHANGED <<now, storage, events, inForce, scope>>
       ELSE /\ accessExpiry' = GrantAfterRevoke(sender, _requester)
            /\ inForce' = [inForce EXCEPT ![sender][_requester] = NoApproval]
            /\ emit(AccessRevoked(sender, _requester))
            /\ UNCHANGED <<now, accessRequests, patientRecords, scope>>

---------------------------------------------------------------------------
(* extendAccess *)

ExtendBaseTime_alwaysNow(timestamp, currentExpiry) == timestamp

ExtendBaseTime_alwaysCurrentExpiry(timestamp, currentExpiry) ==
    currentExpiry

\* block.timestamp > currentExpiry ? block.timestamp : currentExpiry
ExtendBaseTime(timestamp, currentExpiry) ==
    IF timestamp > currentExpiry THEN timestamp ELSE currentExpiry

extendAccessError_allowsZeroHours(sender, _requester, _additionalHours) ==
    IF ~(_requester # ZeroAddress) THEN InvalidRequester
    ELSE LET currentExpiry == accessExpiry[sender][_requester] IN
         IF ~(currentExpiry > 0) THEN NoExistingGrant
         ELSE LET baseTime == ExtendBaseTime(now, currentExpiry) IN
              IF MulOverflows(_additionalHours, HOUR) THEN Panic
              ELSE IF AddOverflows(baseTime, _additionalHours * HOUR) THEN Panic
              ELSE IF AddOverflows(now, MaxHorizonHours * HOUR) THEN Panic
              ELSE IF ~(baseTime + (_additionalHours * HOUR)
                            <= now + (MaxHorizonHours * HOUR))
                   THEN ExceedsMaxHorizon
              ELSE NoError

extendAccessError_noGrantCheck(sender, _requester, _additionalHours) ==
    IF ~(_requester # ZeroAddress) THEN InvalidRequester
    ELSE IF ~(_additionalHours > 0) THEN HoursZero
    ELSE LET currentExpiry == accessExpiry[sender][_requester]
             baseTime == ExtendBaseTime(now, currentExpiry)
         IN  IF MulOverflows(_additionalHours, HOUR) THEN Panic
             ELSE IF AddOverflows(baseTime, _additionalHours * HOUR) THEN Panic
             ELSE IF ~(baseTime + (_additionalHours * HOUR)
                           <= now + (MaxHorizonHours * HOUR))
                  THEN ExceedsMaxHorizon
             ELSE NoError

extendAccessError_noHorizonCheck(sender, _requester, _additionalHours) ==
    IF ~(_requester # ZeroAddress) THEN InvalidRequester
    ELSE IF ~(_additionalHours > 0) THEN HoursZero
    ELSE LET currentExpiry == accessExpiry[sender][_requester] IN
         IF ~(currentExpiry > 0) THEN NoExistingGrant
         ELSE LET baseTime == ExtendBaseTime(now, currentExpiry) IN
              IF MulOverflows(_additionalHours, HOUR) THEN Panic
              ELSE IF AddOverflows(baseTime, _additionalHours * HOUR) THEN Panic
              ELSE NoError

extendAccessError(sender, _requester, _additionalHours) ==
    IF ~(_requester # ZeroAddress) THEN InvalidRequester
    ELSE IF ~(_additionalHours > 0) THEN HoursZero
    ELSE LET currentExpiry == accessExpiry[sender][_requester] IN
         IF ~(currentExpiry > 0) THEN NoExistingGrant
         ELSE LET baseTime == ExtendBaseTime(now, currentExpiry) IN
              IF MulOverflows(_additionalHours, HOUR) THEN Panic
              ELSE IF AddOverflows(baseTime, _additionalHours * HOUR) THEN Panic
              ELSE IF AddOverflows(now, MaxHorizonHours * HOUR) THEN Panic
              ELSE IF ~(baseTime + (_additionalHours * HOUR)
                            <= now + (MaxHorizonHours * HOUR))
                   THEN ExceedsMaxHorizon
              ELSE NoError

extendAccess(sender, _requester, _additionalHours) ==
    LET err == extendAccessError(sender, _requester, _additionalHours)
        currentExpiry == accessExpiry[sender][_requester]
    IN
    IF err # NoError
    THEN /\ last' = Call("extendAccess", sender, sender, _requester, 0,
                         _additionalHours, FALSE, err, 0, currentExpiry)
         /\ UNCHANGED <<now, storage, events, inForce, scope>>
    ELSE LET newExpiry == ExtendBaseTime(now, currentExpiry)
                              + (_additionalHours * HOUR)
         IN  /\ accessExpiry' = [accessExpiry EXCEPT ![sender][_requester] = newExpiry]
             /\ inForce' = [inForce EXCEPT ![sender][_requester] = NoApproval]
             /\ last' = Call("extendAccess", sender, sender, _requester, 0,
                             _additionalHours, FALSE, NoError, newExpiry,
                             currentExpiry)
             /\ emit(AccessExtended(sender, _requester, newExpiry))
             /\ UNCHANGED <<now, accessRequests, patientRecords, scope>>

---------------------------------------------------------------------------
(* addRecord *)

addRecordError_anyone(sender, _patient) == NoError

addRecordError_patientOnly(sender, _patient) ==
    IF ~(sender = _patient) THEN Unauthorized ELSE NoError

addRecordError(sender, _patient) ==
    IF ~hasAccess(_patient, sender) THEN Unauthorized ELSE NoError

NewRecord(sender, _ipfsHash, _fileName) ==
    [ipfsHash |-> _ipfsHash, fileName |-> _fileName, doctor |-> sender,
     timestamp |-> now]

RecordsAfterAdd_atFront(_patient, newRecord) ==
    [patientRecords EXCEPT ![_patient] = <<newRecord>> \o @]

\* patientRecords[_patient].push(newRecord)
RecordsAfterAdd(_patient, newRecord) ==
    [patientRecords EXCEPT ![_patient] = Append(@, newRecord)]

addRecord(sender, _patient, _ipfsHash, _fileName) ==
    LET err == addRecordError(sender, _patient) IN
    /\ last' = Call("addRecord", sender, _patient, sender, 0, 0, FALSE, err, 0, 0)
    /\ IF err # NoError
       THEN UNCHANGED <<now, storage, events, inForce, scope>>
       ELSE /\ TotalRecords < scope.maxRecords
            /\ patientRecords' =
                   RecordsAfterAdd(_patient,
                                   NewRecord(sender, _ipfsHash, _fileName))
            /\ emit(RecordAdded(_patient, _ipfsHash, sender))
            /\ UNCHANGED <<now, accessRequests, accessExpiry, inForce, scope>>

---------------------------------------------------------------------------
\* a transaction is sent once the previous one is settled
Settled == last.err = NoError

RequestAccessStep ==
    /\ Settled
    /\ \E sender \in scope.senders, _patient \in scope.patients, d \in Durations :
          requestAccess(sender, _patient, d)

RespondToRequestStep ==
    /\ Settled
    /\ \E sender \in scope.senders, id \in 0..MaxRequests, _approve \in BOOLEAN :
          respondToRequest(sender, id, _approve)

RevokeAccessStep ==
    /\ Settled
    /\ \E sender \in scope.senders, _requester \in {ZeroAddress} \cup scope.senders :
          revokeAccess(sender, _requester)

ExtendAccessStep ==
    /\ Settled
    /\ \E sender \in scope.senders, _requester \in {ZeroAddress} \cup scope.senders,
          h \in ExtendHours :
          extendAccess(sender, _requester, h)

AddRecordStep ==
    /\ Settled
    /\ \E sender \in scope.senders, _patient \in scope.patients,
          h \in IpfsHashes, f \in FileNames :
          addRecord(sender, _patient, h, f)

Next ==
    \/ Settled /\ Tick
    \/ Resume
    \/ RequestAccessStep
    \/ RespondToRequestStep
    \/ RevokeAccessStep
    \/ ExtendAccessStep
    \/ AddRecordStep

Spec == Init /\ [][Next]_vars

---------------------------------------------------------------------------
(* Properties *)

\* the requests of _requester stored under _patient that were approved
ApprovedRequests(_patient, _requester) ==
    {i \in 1..Len(accessRequests[_patient]) :
        /\ accessRequests[_patient][i].requester = _requester
        /\ accessRequests[_patient][i].status = Approved}

\* C1: hasAccess(p, r) is true exactly when r = p, or the live grant for
\* (p, r) is non-zero and now <= the grant's expiry: the expiry instant is
\* still inside the window.  addRecord, which is guarded by hasAccess,
\* succeeds in exactly that window.
C1_AccessWindow ==
    /\ \A p \in Address, r \in Address :
          hasAccess(p, r) <=>
              \/ r = p
              \/ accessExpiry[p][r] # 0 /\ now <= accessExpiry[p][r]
    /\ last.op = "addRecord" =>
          (last.err = NoError <=>
              \/ last.sender = last.patient
              \/ /\ accessExpiry[last.patient][last.sender] # 0
                 /\ now <= accessExpiry[last.patient][last.sender])

\* a record is added by a grantee at the very instant the grant expires
C1_Witness ==
    /\ last.op = "addRecord"
    /\ last.err = NoError
    /\ last.sender # last.patient
    /\ now = accessExpiry[last.patient][last.sender]

\* C2: while no request of r stored under p has been approved (none filed,
\* or all pending or rejected), hasAccess(p, r) is false and getRecords(p)
\* called by r reverts with "Not authorized".
C2_NoApprovalNoAccess ==
    \A p \in Address, r \in Address :
        (r # p /\ ApprovedRequests(p, r) = {}) =>
            /\ ~hasAccess(p, r)
            /\ getRecords(r, p).err = Unauthorized

\* r has a rejected and a pending request under p, and none approved
C2_Witness ==
    \E p \in Users, r \in Users :
        /\ r # p
        /\ ApprovedRequests(p, r) = {}
        /\ \E i, j \in 1..Len(accessRequests[p]) :
              /\ accessRequests[p][i].requester = r
              /\ accessRequests[p][i].status = Rejected
              /\ accessRequests[p][j].requester = r
              /\ accessRequests[p][j].status = Pending

\* C3: an approval at clock t of a pending request of r for d hours leaves
\* the request Approved with grantedAt = t and expiresAt = t + d*3600, sets
\* the live grant of (p, r) to exactly t + d*3600 whatever it was before,
\* and hasAccess(p, r) holds right afterwards.
C3_ApprovalSetsGrant ==
    [][\A p \in Users, r \in Users, id \in 0..MaxRequests :
        (/\ last'.op = "respondToRequest"
         /\ last'.err = NoError
         /\ last'.approve
         /\ last'.sender = p
         /\ last'.requestId = id
         /\ last'.requester = r)
        =>
        LET before == accessRequests[p][id + 1]
            after == accessRequests'[p][id + 1]
            t == now
            d == before.durationInHours
        IN  /\ before.status = Pending
            /\ before.requester = r
            /\ after.status = Approved
            /\ after.grantedAt = t
            /\ after.expiresAt = t + d * 3600
            /\ accessExpiry'[p][r] = t + d * 3600
            /\ now' = t
            /\ hasAccess(p, r)']_vars

\* an approval some time after the request, which replaces a grant that
\* expired later than the new one does
C3_Witness ==
    /\ last.op = "respondToRequest"
    /\ last.err = NoError
    /\ last.approve
    /\ last.priorExpiry > accessExpiry[last.sender][last.requester]
    /\ accessRequests[last.sender][last.requestId + 1].timestamp < now

\* C4: while the live grant of (p, r) is the one an approval at clock t for
\* d hours set (no later approval, extension or revoke), r has access in
\* every state with now <= t + d*3600, and in every state with
\* now > t + d*3600 hasAccess(p, r) is false and getRecords(p) and
\* addRecord(p, ...) called by r revert with "Not authorized".
C4_GrantLapses ==
    \A p \in Users, r \in Users :
        \A id \in inForce[p][r] :
            LET request == accessRequests[p][id + 1]
                t == request.grantedAt
                d == request.durationInHours
            IN  /\ r # p
                /\ request.requester = r
                /\ request.status = Approved
                /\ now <= t + d * 3600 => hasAccess(p, r)
                /\ now > t + d * 3600 =>
                      /\ ~hasAccess(p, r)
                      /\ getRecords(r, p).err = Unauthorized
                      /\ (/\ last.op = "addRecord"
                          /\ last.sender = r
                          /\ last.patient = p) => last.err = Unauthorized

\* r tries to add a record after the approved duration has passed
C4_Witness ==
    /\ last.op = "addRecord"
    /\ last.err = Unauthorized
    /\ last.sender # last.patient
    /\ last.patient \in Users
    /\ \E id \in inForce[last.patient][last.sender] :
          LET request == accessRequests[last.patient][id + 1]
          IN  now > request.grantedAt + request.durationInHours * 3600

\* r reads the records at the last instant of the approved duration
C4_WitnessLastInstant ==
    \E p \in Users, r \in Users :
        \E id \in inForce[p][r] :
            LET request == accessRequests[p][id + 1]
            IN  /\ now = request.grantedAt + request.durationInHours * 3600
                /\ getRecords(r, p).err = NoError

\* C5: revokeAccess(r) by p succeeds whenever the grant of (p, r) is
\* non-zero, still valid or already expired, and sets it to zero: with the
\* clock where it was, hasAccess(p, r) is false, getAccessExpiry(p, r) is 0
\* and getRecords(p) called by r reverts with "Not authorized".
C5_RevokeZeroesGrant ==
    [][\A p \in Users, r \in Users :
        (/\ last'.op = "revokeAccess"
         /\ last'.sender = p
         /\ last'.requester = r
         /\ accessExpiry[p][r] # 0)
        =>
        /\ last'.err = NoError
        /\ now' = now
        /\ accessExpiry'[p][r] = 0
        /\ ~hasAccess(p, r)'
        /\ getAccessExpiry(p, r)' = 0
        /\ getRecords(r, p)'.err = Unauthorized]_vars

\* a grant that was still valid is revoked
C5_Witness ==
    /\ last.op = "revokeAccess"
    /\ last.err = NoError
    /\ last.priorExpiry >= now
    /\ accessExpiry[last.sender][last.requester] = 0

\* a grant that had already expired is revoked
C5_WitnessExpired ==
    /\ last.op = "revokeAccess"
    /\ last.err = NoError
    /\ last.priorExpiry # 0
    /\ last.priorExpiry < now

\* the storage and the clock
chain == <<accessRequests, accessExpiry, patientRecords, now>>

\* C6 as claimed: revokeAccess(r) by p with a zero grant for (p, r) reverts
\* with "No access to revoke" and changes nothing.
C6_Claimed ==
    [][\A p \in Users, r \in Address :
        (/\ last'.op = "revokeAccess"
         /\ last'.sender = p
         /\ last'.requester = r
         /\ accessExpiry[p][r] = 0)
        =>
        /\ last'.err = NoActiveGrant
        /\ UNCHANGED chain]_vars

\* C6, amended: revokeAccess(r) by p with a zero grant for (p, r) reverts and
\* changes nothing; the reason is "No access to revoke" when r is not
\* address(0) and "Invalid requester" when it is.  A second revoke right
\* after a successful one always reverts.
C6_RevokeNothing ==
    [][\A p \in Users, r \in Address :
        (/\ last'.op = "revokeAccess"
         /\ last'.sender = p
         /\ last'.requester = r)
        =>
        /\ accessExpiry[p][r] = 0 =>
              /\ last'.err = IF r = ZeroAddress THEN InvalidRequester
                             ELSE NoActiveGrant
              /\ UNCHANGED chain
        /\ (/\ last.op = "revokeAccess"
            /\ last.err = NoError
            /\ last.sender = p
            /\ last.requester = r) =>
              /\ last'.err = NoActiveGrant
              /\ UNCHANGED chain]_vars

\* a revoke of a grant that was approved and then revoked reverts
C6_Witness ==
    /\ last.op = "revokeAccess"
    /\ last.err = NoActiveGrant
    /\ ApprovedRequests(last.sender, last.requester) # {}

Max(a, b) == IF a > b THEN a ELSE b

\* C7: a successful extendAccess(r, h) by p at clock t sets the grant of
\* (p, r) to max(t, currentExpiry) + h*3600, an expired non-zero grant being
\* resurrected to t + h*3600, and hasAccess(p, r) holds afterwards.
C7_ExtendFromLaterOfNowAndExpiry ==
    [][\A p \in Users, r \in Users, h \in ExtendHours :
        (/\ last'.op = "extendAccess"
         /\ last'.err = NoError
         /\ last'.sender = p
         /\ last'.requester = r
         /\ last'.hours = h)
        =>
        /\ now' = now
        /\ accessExpiry'[p][r] = Max(now, accessExpiry[p][r]) + h * 3600
        /\ (accessExpiry[p][r] < now) => (accessExpiry'[p][r] = now + h * 3600)
        /\ hasAccess(p, r)']_vars

\* an expired grant is resurrected
C7_Witness ==
    /\ last.op = "extendAccess"
    /\ last.err = NoError
    /\ last.priorExpiry < now
    /\ accessExpiry[last.sender][last.requester] = now + last.hours * 3600

\* a grant that is still valid is lengthened
C7_WitnessValid ==
    /\ last.op = "extendAccess"
    /\ last.err = NoError
    /\ last.priorExpiry > now
    /\ accessExpiry[last.sender][last.requester]
           = last.priorExpiry + last.hours * 3600

\* max(t, currentExpiry) + h*3600 <= t + 8760*3600 over the unbounded
\* integers, written without the product (h may be as large as the word)
WithinHorizon(t, currentExpiry, h) ==
    LET room == t + 8760 * 3600 - Max(t, currentExpiry)
    IN  room >= 0 /\ h <= room \div 3600

\* h*3600 or max(t, currentExpiry) + h*3600 does not fit the machine word
OutOfWord(t, currentExpiry, h) ==
    \/ h > MaxUint \div 3600
    \/ Max(t, currentExpiry) > MaxUint - h * 3600

\* C8: extendAccess(r, h) by p at clock t with a non-zero grant and h > 0
\* succeeds if and only if max(t, currentExpiry) + h*3600 <= t + 8760*3600;
\* otherwise it reverts with "Cannot extend beyond 1 year" and the grant
\* keeps its value.
C8_Claimed ==
    [][\A p \in Users, r \in Users, h \in ExtendHours :
        (/\ last'.op = "extendAccess"
         /\ last'.sender = p
         /\ last'.requester = r
         /\ last'.hours = h
         /\ accessExpiry[p][r] # 0
         /\ h > 0)
        =>
        /\ last'.err = NoError <=> WithinHorizon(now, accessExpiry[p][r], h)
        /\ last'.err # NoError =>
              /\ last'.err = ExceedsMaxHorizon
              /\ accessExpiry' = accessExpiry]_vars

\* What the contract does instead: the call succeeds exactly within the
\* horizon and a call that does not leaves the grant as it was, but it
\* reverts with "Cannot extend beyond 1 year" only when the sums fit the
\* machine word, and with Panic(0x11) when they do not.
C8_HorizonOrPanic ==
    [][\A p \in Users, r \in Users, h \in ExtendHours :
        (/\ last'.op = "extendAccess"
         /\ last'.sender = p
         /\ last'.requester = r
         /\ last'.hours = h
         /\ accessExpiry[p][r] # 0
         /\ h > 0)
        =>
        /\ last'.err = NoError <=> WithinHorizon(now, accessExpiry[p][r], h)
        /\ last'.err # NoError =>
              /\ last'.err = IF OutOfWord(now, accessExpiry[p][r], h)
                             THEN Panic ELSE ExceedsMaxHorizon
              /\ accessExpiry' = accessExpiry]_vars

\* a grant just approved for 8760 hours is not extended by a further hour or
\* more: here by 8759 hours, which fit the word
C8_WitnessRejected ==
    /\ last.op = "extendAccess"
    /\ last.err = ExceedsMaxHorizon
    /\ last.priorExpiry = now + 8760 * 3600

\* an extension that ends exactly at the horizon succeeds
C8_WitnessAtHorizon ==
    /\ last.op = "extendAccess"
    /\ last.err = NoError
    /\ accessExpiry[last.sender][last.requester] = now + 8760 * 3600

\* C9 as claimed: extendAccess(r, h) by p with a zero grant for (p, r)
\* reverts with "No existing access to extend" and changes nothing.
C9_Claimed ==
    [][\A p \in Users, r \in Address, h \in ExtendHours :
        (/\ last'.op = "extendAccess"
         /\ last'.sender = p
         /\ last'.requester = r
         /\ last'.hours = h
         /\ accessExpiry[p][r] = 0)
        =>
        /\ last'.err = NoExistingGrant
        /\ UNCHANGED chain]_vars

\* C9, amended: extendAccess(r, h) by p with a zero grant for (p, r) reverts
\* and changes nothing; the reason is "No existing access to extend" when r
\* is not address(0) and h > 0, "Invalid requester" when r is address(0),
\* and "Additional hours must be > 0" when r is not address(0) and h = 0.
\* A zero grant becomes non-zero only by p approving a request of r.
C9_ExtendNothing ==
    [][/\ \A p \in Users, r \in Address, h \in ExtendHours :
            (/\ last'.op = "extendAccess"
             /\ last'.sender = p
             /\ last'.requester = r
             /\ last'.hours = h
             /\ accessExpiry[p][r] = 0)
            =>
            /\ last'.err = IF r = ZeroAddress THEN InvalidRequester
                           ELSE IF h = 0 THEN HoursZero
                           ELSE NoExistingGrant
            /\ UNCHANGED chain
       /\ \A p \in Address, r \in Address :
            (accessExpiry[p][r] = 0 /\ accessExpiry'[p][r] # 0)
            =>
            /\ last'.op = "respondToRequest"
            /\ last'.err = NoError
            /\ last'.approve
            /\ last'.sender = p
            /\ last'.requester = r]_vars

\* an extension of a grant that was approved and then revoked reverts
C9_Witness ==
    /\ last.op = "extendAccess"
    /\ last.err = NoExistingGrant
    /\ ApprovedRequests(last.sender, last.requester) # {}

\* a revoked grant is given again by a new approval
C9_WitnessReapproved ==
    /\ last.op = "respondToRequest"
    /\ last.err = NoError
    /\ last.approve
    /\ last.priorExpiry = 0
    /\ Cardinality(ApprovedRequests(last.sender, last.requester)) = 2

\* C10: requestAccess(patient, d) by c succeeds if and only if patient is
\* not address(0), 1 <= d <= 8760 and c # patient.  It reverts with
\* "Invalid patient" for address(0), with one of the two duration reasons
\* for d = 0 or d >= 8761 (under a patient that is not address(0)), and with
\* "Cannot request access to own records" for c = patient (with a valid
\* duration); a call that reverts appends no request, one that succeeds
\* appends one.
C10_RequestPreconditions ==
    [][\A c \in Users, p \in Address, d \in Durations :
        (/\ last'.op = "requestAccess"
         /\ last'.sender = c
         /\ last'.patient = p
         /\ last'.hours = d)
        =>
        /\ last'.err = NoError <=>
              (p # ZeroAddress /\ 1 <= d /\ d <= 8760 /\ c # p)
        /\ p = ZeroAddress => last'.err = InvalidPatient
        /\ (p # ZeroAddress /\ (d = 0 \/ d >= 8761)) =>
              last'.err \in InvalidDuration
        /\ (p # ZeroAddress /\ 1 <= d /\ d <= 8760 /\ c = p) =>
              last'.err = SelfRequest
        /\ last'.err # NoError => UNCHANGED chain
        /\ last'.err = NoError =>
              /\ Len(accessRequests'[p]) = Len(accessRequests[p]) + 1
              /\ \A q \in Address \ {p} :
                    accessRequests'[q] = accessRequests[q]]_vars

\* a request for exactly 8760 hours is accepted
C10_Witness ==
    /\ last.op = "requestAccess"
    /\ last.err = NoError
    /\ last.hours = 8760
    /\ accessRequests[last.patient][last.ret + 1].durationInHours = 8760

\* a request for 8761 hours is refused
C10_WitnessTooLong ==
    /\ last.op = "requestAccess"
    /\ last.err = DurationTooLong
    /\ last.hours = 8761

\* C11: a successful requestAccess(p, d) by c appends to the end of p's
\* request list the entry (requester c, timestamp now, Pending, duration d,
\* grantedAt 0, expiresAt 0) and returns the length the list had before;
\* no earlier entry, no other list and no grant changes.  Across every
\* step a list never gets shorter and the entry at a position stays the
\* same request (requester, timestamp, duration), so the ids of a patient
\* are 0, 1, 2, ... in call order, are never reused, and getRequests(p)
\* holds the request with id i at position i.
C11_RequestAppended ==
    [][/\ \A c \in Users, p \in Users, d \in Durations :
            (/\ last'.op = "requestAccess"
             /\ last'.err = NoError
             /\ last'.sender = c
             /\ last'.patient = p
             /\ last'.hours = d)
            =>
            /\ accessRequests'[p] =
                   Append(accessRequests[p],
                          [requester |-> c, timestamp |-> now,
                           status |-> Pending, durationInHours |-> d,
                           grantedAt |-> 0, expiresAt |-> 0])
            /\ last'.ret = Len(accessRequests[p])
            /\ \A q \in Address \ {p} : accessRequests'[q] = accessRequests[q]
            /\ accessExpiry' = accessExpiry
            /\ getRequests(p, p)'.val[last'.ret + 1] =
                   accessRequests'[p][Len(accessRequests'[p])]
       /\ \A p \in Address :
            /\ Len(accessRequests'[p]) >= Len(accessRequests[p])
            /\ Len(accessRequests'[p]) > Len(accessRequests[p]) =>
                  /\ last'.op = "requestAccess"
                  /\ last'.err = NoError
                  /\ last'.patient = p
                  /\ Len(accessRequests'[p]) = Len(accessRequests[p]) + 1
            /\ \A i \in 1..Len(accessRequests[p]) :
                  /\ accessRequests'[p][i].requester
                         = accessRequests[p][i].requester
                  /\ accessRequests'[p][i].timestamp
                         = accessRequests[p][i].timestamp
                  /\ accessRequests'[p][i].durationInHours
                         = accessRequests[p][i].durationInHours]_vars

\* a second request is filed under a patient whose first request has been
\* approved at a later instant: it gets id 1
C11_Witness ==
    /\ last.op = "requestAccess"
    /\ last.err = NoError
    /\ last.ret = 1
    /\ accessRequests[last.patient][1].status = Approved
    /\ accessRequests[last.patient][2].timestamp
           > accessRequests[last.patient][1].timestamp

\* C12: the status of a request changes only from Pending, to Approved or to
\* Rejected; a request that is Approved or Rejected keeps its status,
\* grantedAt and expiresAt in every later step (revoke, extend and later
\* approvals for the same requester included).
C12_ResolvedOnce ==
    [][\A p \in Address :
          \A i \in 1..Len(accessRequests[p]) :
              LET before == accessRequests[p][i]
                  after == accessRequests'[p][i]
              IN  /\ after.status # before.status =>
                        /\ before.status = Pending
                        /\ after.status \in {Approved, Rejected}
                  /\ before.status # Pending =>
                        /\ after.status = before.status
                        /\ after.grantedAt = before.grantedAt
                        /\ after.expiresAt = before.expiresAt]_vars

\* a later request of the same requester is approved at a later instant,
\* after the grant of the first approval was revoked: the first request is
\* still Approved with the expiry it was given
C12_Witness ==
    /\ last.op = "respondToRequest"
    /\ last.err = NoError
    /\ last.approve
    /\ last.requestId = 1
    /\ last.priorExpiry = 0
    /\ LET first == accessRequests[last.sender][1]
       IN  /\ first.requester = last.requester
           /\ first.status = Approved
           /\ first.grantedAt < now
           /\ first.expiresAt # accessExpiry[last.sender][last.requester]

\* the request lists, the grants, the record lists and the event log
whole == <<accessRequests, accessExpiry, patientRecords, events>>

\* C13: respondToRequest(id, approve) by p on a request of p that is already
\* Approved or Rejected reverts with "Already resolved", with either value of
\* approve, and the request lists, grants, record lists and event log are
\* as they were before the call.
C13_SecondResponseFails ==
    [][\A p \in Users, id \in 0..MaxRequests :
        (/\ last'.op = "respondToRequest"
         /\ last'.sender = p
         /\ last'.requestId = id
         /\ id < Len(accessRequests[p])
         /\ accessRequests[p][id + 1].status # Pending)
        =>
        /\ last'.err = AlreadyResolved
        /\ UNCHANGED whole
        /\ UNCHANGED now]_vars

\* an approved request is answered again with a rejection
C13_Witness ==
    /\ last.op = "respondToRequest"
    /\ last.err = AlreadyResolved
    /\ ~last.approve
    /\ accessRequests[last.sender][last.requestId + 1].status = Approved
    /\ events # <<>>

\* a rejected request is answered again with an approval
C13_WitnessRejected ==
    /\ last.op = "respondToRequest"
    /\ last.err = AlreadyResolved
    /\ last.approve
    /\ accessRequests[last.sender][last.requestId + 1].status = Rejected

\* C14: a rejection of a Pending request by p sets that request's status to
\* Rejected and nothing else: its grantedAt and expiresAt stay 0, every other
\* request, every grant (so hasAccess of the requester too) and every record
\* list is as before, and the event emitted is AccessRequestResolved with
\* approved = false and expiresAt = 0.
C14_RejectionTouchesStatusOnly ==
    [][\A p \in Users, id \in 0..MaxRequests :
        (/\ last'.op = "respondToRequest"
         /\ last'.err = NoError
         /\ ~last'.approve
         /\ last'.sender = p
         /\ last'.requestId = id)
        =>
        LET before == accessRequests[p][id + 1]
            after == accessRequests'[p][id + 1]
            r == before.requester
        IN  /\ before.status = Pending
            /\ after = [before EXCEPT !.status = Rejected]
            /\ after.grantedAt = 0
            /\ after.expiresAt = 0
            /\ \A q \in Address :
                  /\ Len(accessRequests'[q]) = Len(accessRequests[q])
                  /\ \A i \in 1..Len(accessRequests[q]) :
                        (q # p \/ i # id + 1) =>
                            accessRequests'[q][i] = accessRequests[q][i]
            /\ accessExpiry' = accessExpiry
            /\ now' = now
            /\ hasAccess(p, r)' = hasAccess(p, r)
            /\ patientRecords' = patientRecords
            /\ events' =
                   Append(events,
                          [name |-> "AccessRequestResolved", patient |-> p,
                           requester |-> r, requestId |-> id,
                           approved |-> FALSE, expiresAt |-> 0])]_vars

\* a request is rejected while its requester holds a valid grant from an
\* earlier approval, and keeps access
C14_Witness ==
    /\ last.op = "respondToRequest"
    /\ last.err = NoError
    /\ ~last.approve
    /\ last.priorExpiry # 0
    /\ hasAccess(last.sender, last.requester)
    /\ accessRequests[last.sender][last.requestId + 1].status = Rejected

\* a request is rejected while its requester has no grant
C14_WitnessNoGrant ==
    /\ last.op = "respondToRequest"
    /\ last.err = NoError
    /\ ~last.approve
    /\ accessExpiry[last.sender][last.requester] = 0
    /\ ~hasAccess(last.sender, last.requester)

\* C15: respondToRequest(id, approve) by c reverts with "Invalid request ID"
\* and changes nothing exactly when id is not smaller than the length of
\* c's own request list; a response that succeeds changes the request list
\* of c only, so a request filed under another patient is never resolved
\* by c.
C15_OwnListOnly ==
    [][\A c \in Users, id \in 0..MaxRequests :
        (/\ last'.op = "respondToRequest"
         /\ last'.sender = c
         /\ last'.requestId = id)
        =>
        /\ last'.err = InvalidRequestId <=> ~(id < Len(accessRequests[c]))
        /\ last'.err = InvalidRequestId =>
              /\ UNCHANGED whole
              /\ UNCHANGED now
        /\ \A q \in Address \ {c} :
              /\ accessRequests'[q] = accessRequests[q]
              /\ accessExpiry'[q] = accessExpiry[q]]_vars

\* c answers an id that is pending in another patient's list and out of
\* bounds in its own
C15_Witness ==
    /\ last.op = "respondToRequest"
    /\ last.err = InvalidRequestId
    /\ \E q \in Users \ {last.sender} :
          /\ last.requestId < Len(accessRequests[q])
          /\ accessRequests[q][last.requestId + 1].status = Pending

\* c resolves id 0 of its own list while id 0 of another patient's list
\* stays pending
C15_WitnessOwnId ==
    /\ last.op = "respondToRequest"
    /\ last.err = NoError
    /\ last.requestId = 0
    /\ \E q \in Users \ {last.sender} :
          /\ Len(accessRequests[q]) > 0
          /\ accessRequests[q][1].status = Pending

\* C16: the grant of (p, r) and the status of the requests in p's list
\* change only in successful respondToRequest, revokeAccess and extendAccess
\* steps whose caller is p; hasAccess(p, r), r # p, becomes true only in a
\* step whose caller is p.
C16_OnlyPatientDecides ==
    [][\A p \in Address :
        /\ \A r \in Address :
              /\ accessExpiry'[p][r] # accessExpiry[p][r] =>
                    /\ last'.sender = p
                    /\ last'.err = NoError
                    /\ last'.op \in
                           {"respondToRequest", "revokeAccess", "extendAccess"}
              /\ (r # p /\ ~hasAccess(p, r) /\ hasAccess(p, r)') =>
                    /\ last'.sender = p
                    /\ last'.err = NoError
                    /\ last'.op \in {"respondToRequest", "extendAccess"}
        /\ \A i \in 1..Len(accessRequests[p]) :
              accessRequests'[p][i].status # accessRequests[p][i].status =>
                  /\ last'.sender = p
                  /\ last'.err = NoError
                  /\ last'.op = "respondToRequest"]_vars

\* an account revokes the grant it gave while it holds a grant under the
\* other patient, which stays
C16_Witness ==
    /\ last.op = "revokeAccess"
    /\ last.err = NoError
    /\ accessExpiry[last.requester][last.sender] # 0
    /\ hasAccess(last.requester, last.sender)
    /\ ~hasAccess(last.sender, last.requester)

\* C17: addRecord(p, contentId, name) by c succeeds if and only if
\* hasAccess(p, c) holds when it is called; a call that succeeds appends the
\* one record (contentId, name, doctor c, timestamp now) to the end of p's
\* list and touches no other list; a call that fails reverts with
\* "Not authorized" and leaves every record list as it was.
C17_AddRecordGuarded ==
    [][\A c \in Users, p \in Address :
        (/\ last'.op = "addRecord"
         /\ last'.sender = c
         /\ last'.patient = p)
        =>
        /\ last'.err = NoError <=> hasAccess(p, c)
        /\ last'.err = NoError =>
              /\ \E h \in IpfsHashes, f \in FileNames :
                    patientRecords'[p] =
                        Append(patientRecords[p],
                               [ipfsHash |-> h, fileName |-> f, doctor |-> c,
                                timestamp |-> now])
              /\ \A q \in Address \ {p} :
                    patientRecords'[q] = patientRecords[q]
        /\ last'.err # NoError =>
              /\ last'.err = Unauthorized
              /\ patientRecords' = patientRecords
              /\ UNCHANGED whole]_vars

\* a grantee appends a second record after the patient's own
C17_Witness ==
    /\ last.op = "addRecord"
    /\ last.err = NoError
    /\ last.sender # last.patient
    /\ Len(patientRecords[last.patient]) = 2
    /\ patientRecords[last.patient][1].doctor = last.patient
    /\ patientRecords[last.patient][2].doctor = last.sender
    /\ patientRecords[last.patient][2].timestamp = now

\* an identity whose grant has expired is refused, the list keeping the
\* record it added while the grant was valid
C17_WitnessRefused ==
    /\ last.op = "addRecord"
    /\ last.err = Unauthorized
    /\ last.patient \in Users
    /\ accessExpiry[last.patient][last.sender] # 0
    /\ \E i \in 1..Len(patientRecords[last.patient]) :
          patientRecords[last.patient][i].doctor = last.sender

\* the RecordAdded events of patient p in the log, oldest first
AddedTo(p) ==
    SelectSeq(events, LAMBDA e : e.name = "RecordAdded" /\ e.patient = p)

\* C18: getRecords(p) called by c returns p's whole record list, which holds
\* one record per successful addRecord for p in the order of the calls
\* (whoever the uploader), if c is p or holds a non-zero grant that has not
\* expired; it reverts with "Not authorized" otherwise.
C18_ReadsWholeList ==
    \A p \in Address, c \in Users :
        LET result == getRecords(c, p)
            added == AddedTo(p)
        IN  IF \/ c = p
               \/ accessExpiry[p][c] # 0 /\ now <= accessExpiry[p][c]
            THEN /\ result.err = NoError
                 /\ result.val = patientRecords[p]
                 /\ Len(result.val) = Len(added)
                 /\ \A i \in 1..Len(added) :
                       /\ result.val[i].ipfsHash = added[i].ipfsHash
                       /\ result.val[i].doctor = added[i].doctor
            ELSE result = Reverted(Unauthorized)

\* a grantee reads a list that holds a record of the patient and one of its
\* own
C18_Witness ==
    \E p \in Users, c \in Users :
        /\ c # p
        /\ getRecords(c, p).err = NoError
        /\ Len(getRecords(c, p).val) = 2
        /\ getRecords(c, p).val[1].doctor # getRecords(c, p).val[2].doctor

\* an identity that never had a grant is refused a list that is not empty
C18_WitnessRefused ==
    \E p \in Users, c \in Users :
        /\ c # p
        /\ accessExpiry[p][c] = 0
        /\ patientRecords[p] # <<>>
        /\ getRecords(c, p).err = Unauthorized

\* C19: in every step the record list of each patient before the step is a
\* prefix of the list after it, and the list changes only in a successful
\* addRecord for that patient, which makes it one record longer.
C19_RecordsAppendOnly ==
    [][\A p \in Address :
        /\ Len(patientRecords'[p]) >= Len(patientRecords[p])
        /\ \A i \in 1..Len(patientRecords[p]) :
              patientRecords'[p][i] = patientRecords[p][i]
        /\ patientRecords'[p] # patientRecords[p] =>
              /\ last'.op = "addRecord"
              /\ last'.err = NoError
              /\ last'.patient = p
              /\ Len(patientRecords'[p]) = Len(patientRecords[p]) + 1]_vars

\* the grant of an uploader is revoked: its record stays in the list
C19_Witness ==
    /\ last.op = "revokeAccess"
    /\ last.err = NoError
    /\ \E i \in 1..Len(patientRecords[last.sender]) :
          patientRecords[last.sender][i].doctor = last.requester

\* a record is appended at a later instant by another uploader
C19_WitnessSecond ==
    /\ last.op = "addRecord"
    /\ last.err = NoError
    /\ Len(patientRecords[last.patient]) = 2
    /\ patientRecords[last.patient][1].doctor # last.sender
    /\ patientRecords[last.patient][1].timestamp < now

\* C20: getRemainingAccess(p, r) is the largest word if r = p; otherwise 0 if
\* the grant of (p, r) is zero or now is past it; otherwise grant - now.  So
\* for r # p it is 0 whenever hasAccess(p, r) is false and grant - now
\* whenever hasAccess(p, r) is true, which is 0 at the expiry instant.
C20_RemainingAccess ==
    \A p \in Address, r \in Address :
        /\ getRemainingAccess(p, r) =
               IF r = p THEN MaxUint
               ELSE IF accessExpiry[p][r] = 0 \/ now > accessExpiry[p][r] THEN 0
               ELSE accessExpiry[p][r] - now
        /\ r # p =>
              /\ ~hasAccess(p, r) => getRemainingAccess(p, r) = 0
              /\ hasAccess(p, r) =>
                    getRemainingAccess(p, r) = accessExpiry[p][r] - now

\* at the expiry instant access is valid and nothing remains
C20_Witness ==
    \E p \in Users, r \in Users :
        /\ r # p
        /\ hasAccess(p, r)
        /\ now = accessExpiry[p][r]
        /\ getRemainingAccess(p, r) = 0

\* a grant that has expired leaves nothing
C20_WitnessExpired ==
    \E p \in Users, r \in Users :
        /\ r # p
        /\ accessExpiry[p][r] # 0
        /\ now > accessExpiry[p][r]
        /\ getRemainingAccess(p, r) = 0

\* one hour remains right after a one-hour approval
C20_WitnessHour ==
    \E p \in Users, r \in Users :
        /\ r # p
        /\ getRemainingAccess(p, r) = 3600

\* C21: getAccessExpiry(p, r) is the largest word if r = p, and otherwise the
\* stored grant of (p, r) as it is: 0 if never granted or revoked, and the
\* expiry timestamp also when that timestamp is in the past.
C21_RawExpiry ==
    \A p \in Address, r \in Address :
        /\ r = p => getAccessExpiry(p, r) = MaxUint
        /\ r # p =>
              /\ getAccessExpiry(p, r) = accessExpiry[p][r]
              /\ ApprovedRequests(p, r) = {} => getAccessExpiry(p, r) = 0
              /\ (/\ last.op = "revokeAccess"
                  /\ last.err = NoError
                  /\ last.sender = p
                  /\ last.requester = r) => getAccessExpiry(p, r) = 0

\* the expiry of a grant that lapsed is still reported
C21_Witness ==
    \E p \in Users, r \in Users :
        /\ r # p
        /\ getAccessExpiry(p, r) # 0
        /\ getAccessExpiry(p, r) < now
        /\ ~hasAccess(p, r)

\* a revoked grant is reported as 0
C21_WitnessRevoked ==
    /\ last.op = "revokeAccess"
    /\ last.err = NoError
    /\ last.priorExpiry # 0
    /\ getAccessExpiry(last.sender, last.requester) = 0

\* the positions in p's request list of the requests of r
RequestsOf(p, r) ==
    {i \in 1..Len(accessRequests[p]) : accessRequests[p][i].requester = r}

\* C22: the result of getActiveAccessors(p) called by p lists each requester
\* at most once whatever the number of its requests, lists only requesters
\* whose grant is non-zero and not expired, and reports for each the live
\* grant of (p, requester).
C22_ActiveAccessorsOnce ==
    \A p \in Users :
        LET result == getActiveAccessors(p, p)
            addrs == result.val[1]
            expiries == result.val[2]
        IN  /\ result.err = NoError
            /\ Len(addrs) = Len(expiries)
            /\ \A i, j \in 1..Len(addrs) : i # j => addrs[i] # addrs[j]
            /\ \A i \in 1..Len(addrs) :
                  /\ accessExpiry[p][addrs[i]] # 0
                  /\ now <= accessExpiry[p][addrs[i]]
                  /\ expiries[i] = accessExpiry[p][addrs[i]]

\* a requester with two approved requests whose grant was then extended is
\* listed once, with the extended expiry
C22_Witness ==
    \E p \in Users, r \in Users :
        /\ Cardinality(ApprovedRequests(p, r)) = 2
        /\ getActiveAccessors(p, p).val[1] = <<r>>
        /\ \A i \in ApprovedRequests(p, r) :
              getActiveAccessors(p, p).val[2][1] # accessRequests[p][i].expiresAt

\* the id of the most recent request of r under p
LastRequestId(p, r) ==
    CHOOSE id \in 0..Len(accessRequests[p]) :
        /\ id + 1 \in RequestsOf(p, r)
        /\ \A i \in RequestsOf(p, r) : i <= id + 1

C24_PatientOnlyViews ==
    \A p \in Address, c \in Users :
        /\ c = p =>
              /\ getRequests(c, p) = Returned(accessRequests[p])
              /\ getActiveAccessors(c, p).err = NoError
        /\ c # p =>
              /\ getRequests(c, p) = Reverted(OnlyPatient)
              /\ getActiveAccessors(c, p) = Reverted(OnlyPatient)

\* a caller that holds a valid grant under p and is listed as active is
\* refused both views
C24_Witness ==
    \E p \in Users, c \in Users :
        /\ c # p
        /\ hasAccess(p, c)
        /\ getActiveAccessors(p, p).val[1] = <<c>>
        /\ getRequests(c, p).err = OnlyPatient
        /\ getActiveAccessors(c, p).err = OnlyPatient

Mutations ==
    {"requestAccess", "respondToRequest", "revokeAccess", "extendAccess",
     "addRecord"}

\* the events of one name in the log
EventsNamed(name) == SelectSeq(events, LAMBDA e : e.name = name)

\* the requests that are not Pending, over all patients
ResolvedRequests ==
    {<<p, i>> \in Address \X (1..(MaxRequests + 1)) :
        /\ i <= Len(accessRequests[p])
        /\ accessRequests[p][i].status # Pending}

\* No operation is applied in part: a request is Approved with both
\* timestamps set or not Approved with neither, the grant an approval set is
\* that request's expiresAt, and the log holds one event per stored request,
\* per resolved request and per stored record.
NothingInPart ==
    /\ \A p \in Address :
          \A i \in 1..Len(accessRequests[p]) :
              LET request == accessRequests[p][i]
              IN  IF request.status = Approved
                  THEN request.grantedAt # 0 /\ request.expiresAt # 0
                  ELSE request.grantedAt = 0 /\ request.expiresAt = 0
    /\ \A p \in Address, r \in Address :
          \A id \in inForce[p][r] :
              /\ accessRequests[p][id + 1].status = Approved
              /\ accessExpiry[p][r] = accessRequests[p][id + 1].expiresAt
    /\ Len(EventsNamed("AccessRequested")) = TotalRequests
    /\ Len(EventsNamed("AccessRequestResolved")) = Cardinality(ResolvedRequests)
    /\ Len(EventsNamed("RecordAdded")) = TotalRecords

\* C25: a requestAccess, respondToRequest, revokeAccess, extendAccess or
\* addRecord that fails, with whatever error, leaves the request lists, the
\* grants, the record lists and the event log exactly as they were; one
\* that succeeds is applied whole (an approval marks the request and sets
\* the grant to its expiresAt and logs it), and no state with an operation
\* applied in part is reached.
C25_AllOrNothing ==
    /\ []NothingInPart
    /\ [][/\ last'.err # NoError =>
                /\ last'.op \in Mutations
                /\ UNCHANGED whole
                /\ UNCHANGED now
          /\ (last'.op \in Mutations /\ last'.err = NoError) =>
                /\ whole' # whole
                /\ Len(events') = Len(events) + 1
          /\ \A p \in Users, r \in Users, id \in 0..MaxRequests :
                (/\ last'.op = "respondToRequest"
                 /\ last'.err = NoError
                 /\ last'.approve
                 /\ last'.sender = p
                 /\ last'.requester = r
                 /\ last'.requestId = id)
                =>
                /\ accessRequests'[p][id + 1].status = Approved
                /\ accessExpiry'[p][r] = accessRequests'[p][id + 1].expiresAt
                /\ events'[Len(events')].expiresAt = accessExpiry'[p][r]]_vars

\* an extension that overflows the word fails after a request, an approval
\* and a record were committed: the grant is the one before the call
C25_Witness ==
    /\ last.op = "extendAccess"
    /\ last.err = Panic
    /\ last.priorExpiry # 0
    /\ accessExpiry[last.sender][last.requester] = last.priorExpiry
    /\ TotalRecords > 0
    /\ Len(events) >= 3

\* an extension beyond the horizon fails
C25_WitnessHorizon ==
    /\ last.op = "extendAccess"
    /\ last.err = ExceedsMaxHorizon
    /\ accessExpiry[last.sender][last.requester] = last.priorExpiry

\* C26: the event log only grows at its end, by one event per successful
\* requestAccess, respondToRequest, revokeAccess, extendAccess and
\* addRecord, of the kind of that call and with the values the call
\* committed (the requestId returned and the duration; the approved flag
\* with the new expiresAt, or 0; the new grant; the uploader); a call that
\* fails appends none, nor does the clock.
C26_LogMirrorsMutations ==
    [][/\ \/ events' = events
          \/ /\ Len(events') = Len(events) + 1
             /\ SubSeq(events', 1, Len(events)) = events
       /\ (last'.err # NoError \/ last'.op \notin Mutations) => events' = events
       /\ \A c \in Users, p \in Address, r \in Address :
             (/\ last'.err = NoError
              /\ last'.sender = c
              /\ last'.patient = p
              /\ last'.requester = r)
             =>
             /\ last'.op = "requestAccess" =>
                   /\ events' =
                          Append(events,
                                 [name |-> "AccessRequested", patient |-> p,
                                  requester |-> c, requestId |-> last'.ret,
                                  durationInHours |-> last'.hours])
                   /\ accessRequests'[p][last'.ret + 1].requester = c
                   /\ accessRequests'[p][last'.ret + 1].durationInHours
                          = last'.hours
                   /\ Len(accessRequests'[p]) = last'.ret + 1
             /\ last'.op = "respondToRequest" =>
                   /\ events' =
                          Append(events,
                                 [name |-> "AccessRequestResolved",
                                  patient |-> c, requester |-> r,
                                  requestId |-> last'.requestId,
                                  approved |-> last'.approve,
                                  expiresAt |->
                                      IF last'.approve
                                      THEN accessExpiry'[c][r] ELSE 0])
                   /\ accessRequests'[c][last'.requestId + 1].requester = r
                   /\ accessRequests'[c][last'.requestId + 1].status =
                          IF last'.approve THEN Approved ELSE Rejected
                   /\ accessRequests'[c][last'.requestId + 1].expiresAt =
                          events'[Len(events')].expiresAt
             /\ last'.op = "revokeAccess" =>
                   /\ events' =
                          Append(events,
                                 [name |-> "AccessRevoked", patient |-> c,
                                  requester |-> r])
                   /\ accessExpiry[c][r] # 0
                   /\ accessExpiry'[c][r] = 0
             /\ last'.op = "extendAccess" =>
                   /\ events' =
                          Append(events,
                                 [name |-> "AccessExtended", patient |-> c,
                                  requester |-> r,
                                  newExpiresAt |-> accessExpiry'[c][r]])
                   /\ accessExpiry'[c][r] # accessExpiry[c][r]
             /\ last'.op = "addRecord" =>
                   LET record == patientRecords'[p][Len(patientRecords'[p])]
                   IN  /\ Len(patientRecords'[p]) = Len(patientRecords[p]) + 1
                       /\ record.doctor = c
                       /\ events' =
                              Append(events,
                                     [name |-> "RecordAdded", patient |-> p,
                                      ipfsHash |-> record.ipfsHash,
                                      doctor |-> c])]_vars

\* the log holds an event of each of the five kinds
C26_Witness ==
    Cardinality({events[i].name : i \in 1..Len(events)}) = 5

\* a call fails with events in the log
C26_WitnessFailed ==
    /\ last.err # NoError
    /\ Len(events) >= 2

\* C27: every grant is 0 or at most now + 8760*3600: no sequence of
\* approvals and extensions gives access that reaches more than one year
\* beyond the clock.
C27_GrantWithinYear ==
    \A p \in Address, r \in Address :
        \/ accessExpiry[p][r] = 0
        \/ accessExpiry[p][r] <= now + 8760 * 3600

\* a one-hour grant extended to exactly one year from now
C27_Witness ==
    /\ last.op = "extendAccess"
    /\ last.err = NoError
    /\ last.priorExpiry = now + 3600
    /\ accessExpiry[last.sender][last.requester] = now + 8760 * 3600

\* a grant approved for 8760 hours
C27_WitnessApproved ==
    /\ last.op = "respondToRequest"
    /\ last.err = NoError
    /\ last.hours = 8760
    /\ accessExpiry[last.sender][last.requester] = now + 8760 * 3600

\* a lapsed grant extended a year later, again to one year from now
C27_WitnessLater ==
    /\ last.op = "extendAccess"
    /\ last.err = NoError
    /\ now > StartTime
    /\ last.priorExpiry < now
    /\ accessExpiry[last.sender][last.requester] = now + 8760 * 3600

\* C28: a non-zero grant of (p, r) comes with an Approved request of r in
\* p's list; so the grant of (p, p) is always zero, and so is the grant of
\* an identity that has no request under p.
C28_GrantHasApproval ==
    \A p \in Address, r \in Address :
        /\ accessExpiry[p][r] # 0 => ApprovedRequests(p, r) # {}
        /\ accessExpiry[p][p] = 0
        /\ RequestsOf(p, r) = {} => accessExpiry[p][r] = 0

\* a grant that an extension set, under a patient with a second requester
\* that was rejected and has none
C28_Witness ==
    \E p \in Users, r \in Users, s \in Users :
        /\ accessExpiry[p][r] # 0
        /\ inForce[p][r] = NoApproval
        /\ ApprovedRequests(p, r) # {}
        /\ s # r
        /\ RequestsOf(p, s) # {}
        /\ accessExpiry[p][s] = 0

\* C29: the set of requesters that getActiveAccessors(p) returns to p is
\* the set of identities r # p with hasAccess(p, r): none that holds valid
\* access is missed, also when its most recent request is Pending or
\* Rejected, and none is listed that does not.
C29_ActiveIsHasAccess ==
    \A p \in Users :
        LET addrs == getActiveAccessors(p, p).val[1]
        IN  {addrs[i] : i \in 1..Len(addrs)}
                = {r \in Address \ {p} : hasAccess(p, r)}

\* a requester whose most recent request was rejected holds access from an
\* earlier approval and is listed, at the expiry instant of its grant
C29_Witness ==
    \E p \in Users, r \in Users :
        /\ r # p
        /\ Len(accessRequests[p]) = 2
        /\ accessRequests[p][2].requester = r
        /\ accessRequests[p][2].status = Rejected
        /\ now = accessExpiry[p][r]
        /\ getActiveAccessors(p, p).val[1] = <<r>>

\* a requester whose most recent request is pending is listed
C29_WitnessPending ==
    \E p \in Users, r \in Users :
        /\ r # p
        /\ RequestsOf(p, r) # {}
        /\ accessRequests[p][LastRequestId(p, r) + 1].status = Pending
        /\ getActiveAccessors(p, p).val[1] = <<r>>

\* a requester whose grant lapsed is not listed
C29_WitnessLapsed ==
    \E p \in Users, r \in Users :
        /\ accessExpiry[p][r] # 0
        /\ now > accessExpiry[p][r]
        /\ getActiveAccessors(p, p).val[1] = <<>>

\* what a stored request satisfies
RequestWellFormed(request) ==
    /\ 1 <= request.durationInHours
    /\ request.durationInHours <= 8760
    /\ request.status \in {Pending, Approved, Rejected}
    /\ request.status = Approved =>
          /\ request.grantedAt >= request.timestamp
          /\ request.expiresAt
                 = request.grantedAt + request.durationInHours * 3600
          /\ request.expiresAt > request.grantedAt
    /\ request.status \in {Pending, Rejected} =>
          /\ request.grantedAt = 0
          /\ request.expiresAt = 0

\* C30: every stored request has 1 <= duration <= 8760; if Approved,
\* grantedAt >= timestamp and expiresAt = grantedAt + duration*3600 (so
\* expiresAt > grantedAt); if Pending or Rejected, grantedAt = 0 and
\* expiresAt = 0; and its requester, timestamp and duration are the same
\* after every step.
C30_RequestsWellFormed ==
    [][\A p \in Address :
          /\ \A i \in 1..Len(accessRequests'[p]) :
                RequestWellFormed(accessRequests'[p][i])
          /\ \A i \in 1..Len(accessRequests[p]) :
                /\ RequestWellFormed(accessRequests[p][i])
                /\ accessRequests'[p][i].requester
                       = accessRequests[p][i].requester
                /\ accessRequests'[p][i].timestamp
                       = accessRequests[p][i].timestamp
                /\ accessRequests'[p][i].durationInHours
                       = accessRequests[p][i].durationInHours]_vars

\* a request of 8760 hours approved some time after it was filed, next to a
\* rejected one
C30_Witness ==
    \E p \in Users :
        \E i, j \in 1..Len(accessRequests[p]) :
            /\ accessRequests[p][i].status = Approved
            /\ accessRequests[p][i].durationInHours = 8760
            /\ accessRequests[p][i].grantedAt > accessRequests[p][i].timestamp
            /\ accessRequests[p][j].status = Rejected

\* C31: a revokeAccess or extendAccess step, whatever its outcome, changes
\* at most the grant of the one pair (caller, requester): every request list
\* is as it was (an Approved request keeps its status, grantedAt and
\* expiresAt), every record list is as it was, and the grant of every other
\* pair is as it was.
C31_GrantOfOnePairOnly ==
    [][last'.op \in {"revokeAccess", "extendAccess"} =>
          /\ accessRequests' = accessRequests
          /\ patientRecords' = patientRecords
          /\ \A p \in Address, r \in Address :
                (p # last'.sender \/ r # last'.requester) =>
                    accessExpiry'[p][r] = accessExpiry[p][r]
          /\ \A p \in Address :
                \A i \in 1..Len(accessRequests[p]) :
                    accessRequests[p][i].status = Approved =>
                        /\ accessRequests'[p][i].status = Approved
                        /\ accessRequests'[p][i].grantedAt
                               = accessRequests[p][i].grantedAt
                        /\ accessRequests'[p][i].expiresAt
                               = accessRequests[p][i].expiresAt]_vars

\* a grant is extended while the patient has a second grantee, whose grant
\* stays: the approved request keeps the expiry it was given
C31_Witness ==
    /\ last.op = "extendAccess"
    /\ last.err = NoError
    /\ \E i \in ApprovedRequests(last.sender, last.requester) :
          /\ accessRequests[last.sender][i].expiresAt = last.priorExpiry
          /\ accessRequests[last.sender][i].expiresAt
                 # accessExpiry[last.sender][last.requester]
    /\ \E s \in Users \ {last.sender, last.requester} :
          accessExpiry[last.sender][s] # 0

\* a grant is revoked under a patient that has a record: the approved
\* request and the record stay
C31_WitnessRevoked ==
    /\ last.op = "revokeAccess"
    /\ last.err = NoError
    /\ patientRecords[last.sender] # <<>>
    /\ \E i \in ApprovedRequests(last.sender, last.requester) :
          accessRequests[last.sender][i].expiresAt = last.priorExpiry

\* C32: a successful extendAccess(r, h) by p leaves the grant of (p, r)
\* strictly greater than it was and strictly later than the clock, so that
\* hasAccess(p, r) holds right after it; extendAccess with h = 0 reverts,
\* whatever the grant, and changes nothing.
C32_ExtendStrictlyLater ==
    [][\A p \in Users, r \in Address, h \in ExtendHours :
        (/\ last'.op = "extendAccess"
         /\ last'.sender = p
         /\ last'.requester = r
         /\ last'.hours = h)
        =>
        /\ last'.err = NoError =>
              /\ now' = now
              /\ accessExpiry'[p][r] > accessExpiry[p][r]
              /\ accessExpiry'[p][r] > now'
              /\ hasAccess(p, r)'
        /\ h = 0 =>
              /\ last'.err # NoError
              /\ UNCHANGED whole
              /\ UNCHANGED now]_vars

\* a grant that is still valid is extended and is later than it was: the
\* requester has access
C32_Witness ==
    /\ last.op = "extendAccess"
    /\ last.err = NoError
    /\ last.priorExpiry >= now
    /\ accessExpiry[last.sender][last.requester] > last.priorExpiry
    /\ hasAccess(last.sender, last.requester)

\* an extension by zero hours of a grant that is still valid reverts
C32_WitnessZero ==
    /\ last.op = "extendAccess"
    /\ last.hours = 0
    /\ last.err = HoursZero
    /\ last.priorExpiry >= now
    /\ accessExpiry[last.sender][last.requester] = last.priorExpiry

\* C33: for r # p, hasAccess(p, r) goes from false to true only in a
\* successful approval by p of a request of r or a successful
\* extendAccess(r, ...) by p, and from true to false only in a successful
\* revokeAccess(r) by p or a clock step from within the grant to past its
\* expiry; requestAccess, a rejection, addRecord, a reverted call and a
\* call about another pair leave it as it is.
C33_AccessTransitions ==
    [][\A p \in Address : \A r \in Address \ {p} :
        /\ (~hasAccess(p, r) /\ hasAccess(p, r)') =>
              /\ last'.err = NoError
              /\ last'.sender = p
              /\ last'.requester = r
              /\ \/ last'.op = "respondToRequest" /\ last'.approve
                 \/ last'.op = "extendAccess"
        /\ (hasAccess(p, r) /\ ~hasAccess(p, r)') =>
              \/ /\ last'.op = "revokeAccess"
                 /\ last'.err = NoError
                 /\ last'.sender = p
                 /\ last'.requester = r
              \/ /\ last'.op = "tick"
                 /\ accessExpiry'[p][r] = accessExpiry[p][r]
                 /\ now <= accessExpiry[p][r]
                 /\ now' > accessExpiry[p][r]
        /\ (\/ last'.op \in {"requestAccess", "addRecord"}
            \/ last'.op = "respondToRequest" /\ ~last'.approve
            \/ last'.err # NoError
            \/ /\ last'.op \in {"respondToRequest", "revokeAccess",
                                 "extendAccess"}
               /\ (last'.sender # p \/ last'.requester # r))
           => (hasAccess(p, r)' <=> hasAccess(p, r))]_vars

\* the clock steps past the expiry of a one-hour grant given at the start:
\* access is lost in a clock step
C33_Witness ==
    /\ last.op = "tick"
    /\ now = StartTime + HOUR + 1
    /\ \E p \in Users, r \in Users :
          /\ r # p
          /\ accessExpiry[p][r] = StartTime + HOUR
          /\ ~hasAccess(p, r)

\* access that had lapsed comes back in an extension
C33_WitnessRegained ==
    /\ last.op = "extendAccess"
    /\ last.err = NoError
    /\ last.priorExpiry # 0
    /\ last.priorExpiry < now
    /\ hasAccess(last.sender, last.requester)

\* a request is filed by a requester that holds access from an earlier
\* approval, and keeps it
C33_WitnessRequest ==
    /\ last.op = "requestAccess"
    /\ last.err = NoError
    /\ hasAccess(last.patient, last.sender)

---------------------------------------------------------------------------
(* The registry under a clock that keeps advancing *)

\* the instant after every grant that can be given up to one hour and one
\* second after the start (an approval or an extension reaches at most one
\* year past the instant it is made at)
EndTime == StartTime + HOUR + 1 + YEAR + 1

\* Account 1 as the patient and account 2 as the other party: the start,
\* one second past the first hour, and the end.
LapseScope ==
    [senders |-> {1, 2}, patients |-> {ZeroAddress, 1},
     instants |-> {StartTime, StartTime + HOUR + 1, EndTime},
     maxRequests |-> MaxRequests, maxRecords |-> 0]

LapseInit == InitIn(LapseScope)

\* transactions are sent until the end
BeforeEnd == now < EndTime

LapseNext ==
    \/ Settled /\ Tick
    \/ Resume
    \/ BeforeEnd /\ RequestAccessStep
    \/ BeforeEnd /\ RespondToRequestStep
    \/ BeforeEnd /\ RevokeAccessStep
    \/ BeforeEnd /\ ExtendAccessStep

\* The chain goes on after a reverted transaction, and block.timestamp keeps
\* advancing whatever transactions are sent.
LapseSpec ==
    /\ LapseInit
    /\ [][LapseNext]_vars
    /\ WF_vars(Resume)
    /\ SF_vars(Settled /\ Tick)

\* p gives r access anew: a successful approval of a request of r, or a
\* successful extension of the grant of r
Granting(p, r) ==
    /\ last'.err = NoError
    /\ last'.sender = p
    /\ last'.requester = r
    /\ \/ last'.op = "respondToRequest" /\ last'.approve
       \/ last'.op = "extendAccess"

\* C34: for r # p, unless p goes on for ever approving requests of r or
\* extending the grant of r, hasAccess(p, r) is eventually false and stays
\* false, under a clock that keeps advancing.
C34_GrantsLapse ==
    \A p \in Users : \A r \in Users \ {p} :
        \/ []<><<Granting(p, r)>>_vars
        \/ <>[]~hasAccess(p, r)

\* a grant extended to one year past the last instant of a call has lapsed
\* at the end
C34_Witness ==
    /\ now = EndTime
    /\ \E p \in Users, r \in Users :
          /\ r # p
          /\ accessExpiry[p][r] = StartTime + HOUR + 1 + YEAR
          /\ ~hasAccess(p, r)

---------------------------------------------------------------------------
\* C35: every record in p's list has a timestamp (createdAt) no greater
\* than the clock, the records of a list are in non-decreasing timestamp
\* order, and the uploader (doctor) of a record is p itself or an identity
\* with an Approved request in p's list whose grantedAt is no later than the
\* record's timestamp; an identity with no approved request under p is the
\* uploader of no record of p.
C35_RecordsWellFormed ==
    \A p \in Address :
        LET records == patientRecords[p] IN
        /\ \A i \in 1..Len(records) :
              /\ records[i].timestamp <= now
              /\ \/ records[i].doctor = p
                 \/ \E k \in ApprovedRequests(p, records[i].doctor) :
                       accessRequests[p][k].grantedAt <= records[i].timestamp
        /\ \A i, j \in 1..Len(records) :
              i < j => records[i].timestamp <= records[j].timestamp
        /\ \A r \in Address \ {p} :
              ApprovedRequests(p, r) = {} =>
                  \A i \in 1..Len(records) : records[i].doctor # r

\* a record uploaded by a grantee some time after the approval, followed by
\* a later record of the patient
C35_Witness ==
    \E p \in Users :
        /\ Len(patientRecords[p]) = 2
        /\ patientRecords[p][1].doctor # p
        /\ \E k \in ApprovedRequests(p, patientRecords[p][1].doctor) :
              accessRequests[p][k].grantedAt < patientRecords[p][1].timestamp
        /\ patientRecords[p][2].doctor = p
        /\ patientRecords[p][2].timestamp > patientRecords[p][1].timestamp

\* C36: the requester of every stored request of p is neither address(0)
\* nor p; so no call reverts with "Invalid request": a respondToRequest
\* with an id inside the caller's list succeeds or reverts with "Already
\* resolved", and one that reverts does so with "Invalid request ID" or
\* "Already resolved".
C36_NoMalformedRequest ==
    /\ \A p \in Address :
          \A i \in 1..Len(accessRequests[p]) :
              /\ accessRequests[p][i].requester # ZeroAddress
              /\ accessRequests[p][i].requester # p
    /\ last.err # InvalidRequest
    /\ last.op = "respondToRequest" =>
          /\ last.err \in {NoError, InvalidRequestId, AlreadyResolved}
          /\ last.requestId < Len(accessRequests[last.sender]) =>
                last.err \in {NoError, AlreadyResolved}
          /\ last.err = InvalidRequestId =>
                ~(last.requestId < Len(accessRequests[last.sender]))

\* a response to an id inside the caller's list reverts, while requests
\* are stored under two patients
C36_Witness ==
    /\ last.op = "respondToRequest"
    /\ last.requestId < Len(accessRequests[last.sender])
    /\ last.err = AlreadyResolved
    /\ \E q \in Users \ {last.sender} : accessRequests[q] # <<>>

\* C37 as claimed: for every h > 0 up to the largest value of the word,
\* extendAccess(r, h) by p on a non-zero grant whose new expiry would be
\* later than now + 8760*3600 reverts with "Cannot extend beyond 1 year" and
\* leaves the grant as it was.
C37_Claimed ==
    [][\A p \in Users, r \in Users, h \in ExtendHours :
        (/\ last'.op = "extendAccess"
         /\ last'.sender = p
         /\ last'.requester = r
         /\ last'.hours = h
         /\ h > 0
         /\ accessExpiry[p][r] # 0
         /\ ~WithinHorizon(now, accessExpiry[p][r], h))
        =>
        /\ last'.err = ExceedsMaxHorizon
        /\ accessExpiry'[p][r] = accessExpiry[p][r]]_vars

\* What the contract does: such a call always reverts and changes nothing,
\* and no extension ever lowers a grant or sets it past the horizon, so the
\* arithmetic never wraps; but when h*3600 or the sum with the base time
\* does not fit the word, the revert is the Panic(0x11) of checked
\* arithmetic and not "Cannot extend beyond 1 year".
C37_RevertsWithoutWrapping ==
    [][\A p \in Users, r \in Users, h \in ExtendHours :
        (/\ last'.op = "extendAccess"
         /\ last'.sender = p
         /\ last'.requester = r
         /\ last'.hours = h
         /\ h > 0
         /\ accessExpiry[p][r] # 0)
        =>
        /\ ~WithinHorizon(now, accessExpiry[p][r], h) =>
              /\ last'.err =
                     IF OutOfWord(now, accessExpiry[p][r], h) THEN Panic
                     ELSE ExceedsMaxHorizon
              /\ UNCHANGED whole
              /\ UNCHANGED now
        /\ accessExpiry'[p][r] >= accessExpiry[p][r]
        /\ accessExpiry'[p][r] # accessExpiry[p][r] =>
              /\ last'.err = NoError
              /\ accessExpiry'[p][r] <= now + 8760 * 3600]_vars

\* an extension by a number of hours whose product with 3600 fits the word,
\* while the sum with the base time does not, reverts with Panic(0x11)
C37_WitnessSum ==
    /\ last.op = "extendAccess"
    /\ last.err = Panic
    /\ last.hours = MaxUint \div 3600
    /\ accessExpiry[last.sender][last.requester] = last.priorExpiry

\* an extension by the largest number of hours, whose product with 3600
\* does not fit the word, reverts with Panic(0x11)
C37_WitnessProduct ==
    /\ last.op = "extendAccess"
    /\ last.err = Panic
    /\ last.hours = MaxUint
    /\ accessExpiry[last.sender][last.requester] = last.priorExpiry

---------------------------------------------------------------------------
\* the positions in the log of the approvals by p of requests of r
ApprovalEvents(p, r) ==
    {k \in 1..Len(events) :
        /\ events[k].name = "AccessRequestResolved"
        /\ events[k].patient = p
        /\ events[k].requester = r
        /\ events[k].approved}

\* the id of the request of r that p approved most recently
LastApprovedId(p, r) ==
    LET k == CHOOSE k \in ApprovalEvents(p, r) :
                 \A j \in ApprovalEvents(p, r) : j <= k
    IN  events[k].requestId

\* the grant of (p, r) against the request of r that p approved last
GrantFromLastApproval ==
    \A p \in Address, r \in Address :
        IF ApprovalEvents(p, r) = {}
        THEN accessExpiry[p][r] = 0 /\ inForce[p][r] = NoApproval
        ELSE LET id == LastApprovedId(p, r)
                 request == accessRequests[p][id + 1]
             IN  /\ request.requester = r
                 /\ request.status = Approved
                 /\ \/ accessExpiry[p][r] = 0
                    \/ accessExpiry[p][r] >= request.expiresAt
                 /\ inForce[p][r] \in {NoApproval, {id}}
                 /\ accessExpiry[p][r] = request.expiresAt
                        <=> inForce[p][r] = {id}

\* C38: the grant of (p, r) is 0 or at least the expiresAt of the request
\* of r that p approved most recently, and equals it exactly when no
\* extension or revoke of (p, r) has succeeded since that approval; a step
\* that is no approval changes a grant only by zeroing it (revokeAccess) or
\* by raising it (extendAccess).
C38_GrantAtLeastLastApproval ==
    /\ []GrantFromLastApproval
    /\ [][\A p \in Address, r \in Address :
            (/\ accessExpiry'[p][r] # accessExpiry[p][r]
             /\ ~(last'.op = "respondToRequest" /\ last'.approve))
            =>
            \/ last'.op = "revokeAccess" /\ accessExpiry'[p][r] = 0
            \/ /\ last'.op = "extendAccess"
               /\ accessExpiry'[p][r] > accessExpiry[p][r]]_vars

\* p approved a long request of r and then a short one, which lowered the
\* grant, and then extended it: the grant is later than the expiresAt of
\* the request approved last
C38_Witness ==
    \E p \in Users, r \in Users :
        /\ Cardinality(ApprovedRequests(p, r)) = 2
        /\ accessExpiry[p][r]
               > accessRequests[p][LastApprovedId(p, r) + 1].expiresAt
        /\ \E i \in ApprovedRequests(p, r) :
              accessRequests[p][i].expiresAt
                  > accessRequests[p][LastApprovedId(p, r) + 1].expiresAt

\* the request with id 0 is approved after the request with id 1, and the
\* grant is the expiresAt of request 0
C38_WitnessExact ==
    \E p \in Users, r \in Users :
        /\ Cardinality(ApprovedRequests(p, r)) = 2
        /\ LastApprovedId(p, r) = 0
        /\ inForce[p][r] = {0}
        /\ accessExpiry[p][r] = accessRequests[p][1].expiresAt
        /\ accessExpiry[p][r] # accessRequests[p][2].expiresAt

\* C39: the error of a call that breaks several preconditions is that of
\* the first check in the code's order.  requestAccess: "Invalid patient",
\* then the duration errors, then "Cannot request access to own records"
\* (a request to one's own records with duration 0 or 8761 reports the
\* duration).  respondToRequest: "Invalid request ID" before "Already
\* resolved".  extendAccess, for a requester that is not address(0):
\* "Additional hours must be > 0" before "No existing access to extend",
\* and that before "Cannot extend beyond 1 year".
C39_ErrorOrder ==
    /\ last.op = "requestAccess" =>
          /\ last.patient = ZeroAddress => last.err = InvalidPatient
          /\ (/\ last.patient # ZeroAddress
              /\ (last.hours = 0 \/ last.hours >= 8761)) =>
                last.err \in InvalidDuration
          /\ last.err = SelfRequest =>
                /\ last.sender = last.patient
                /\ 1 <= last.hours
                /\ last.hours <= 8760
    /\ last.op = "respondToRequest" =>
          /\ ~(last.requestId < Len(accessRequests[last.sender])) =>
                last.err = InvalidRequestId
          /\ last.err = AlreadyResolved =>
                /\ last.requestId < Len(accessRequests[last.sender])
                /\ accessRequests[last.sender][last.requestId + 1].status
                       # Pending
    /\ (last.op = "extendAccess" /\ last.requester # ZeroAddress) =>
          /\ last.hours = 0 => last.err = HoursZero
          /\ (last.hours > 0 /\ last.priorExpiry = 0) =>
                last.err = NoExistingGrant
          /\ last.err \in {ExceedsMaxHorizon, Panic} =>
                /\ last.hours > 0
                /\ last.priorExpiry # 0
                /\ ~WithinHorizon(now, last.priorExpiry, last.hours)

\* a request to one's own records for 8761 hours reports the duration
C39_Witness ==
    /\ last.op = "requestAccess"
    /\ last.sender = last.patient
    /\ last.hours = 8761
    /\ last.err = DurationTooLong

\* a request to one's own records for 0 hours reports the duration
C39_WitnessZero ==
    /\ last.op = "requestAccess"
    /\ last.sender = last.patient
    /\ last.hours = 0
    /\ last.err = DurationZero

\* an extension by 0 hours of a grant that is zero reports the hours
C39_WitnessHours ==
    /\ last.op = "extendAccess"
    /\ last.requester # ZeroAddress
    /\ last.hours = 0
    /\ last.priorExpiry = 0
    /\ last.err = HoursZero

\* an extension past the horizon of a grant that is zero reports the grant
C39_WitnessNoGrant ==
    /\ last.op = "extendAccess"
    /\ last.hours = MaxUint
    /\ last.priorExpiry = 0
    /\ last.err = NoExistingGrant

==========================================================================
